---- MODULE Spec2Model ----
(***************************************************************************)
(* Lending enumerators of combinatorust (src/src/iter.rs): Combinations,   *)
(* Subsequences, Permutations, Product and Catalan.  One enumerator is     *)
(* constructed from the arguments in `args` and then driven by repeated    *)
(* calls of its next(); `rets` records what the calls returned.            *)
(*                                                                         *)
(* Rust vectors and slices are 0-based; they are modelled by TLA+          *)
(* sequences and read through At/Slice, which take 0-based positions.      *)
(***************************************************************************)
EXTENDS Integers, Sequences, FiniteSets, TLC

VARIABLES
    args,   \* the arguments the enumerator is constructed from
    self,   \* the enumerator object (a record of the struct's fields)
    rets,   \* history: the values returned by next(), oldest first
    pc      \* "idle" between calls, "loop" inside the loop of Product::next

vars == <<args, self, rets, pc>>

----------------------------------------------------------------------------
(* Bounds of the model *)

MaxCombN == 6       \* longest source given to combinations()
MaxSubseqN == 5     \* longest source given to subsequences()
MaxPermN == 4       \* longest source given to permutations_iter()
MaxOuter == 5       \* longest outer iterator of a Product
MaxInner == 7       \* longest inner iterator of a Product
MaxLeaves == 7      \* largest argument of Catalan::new
MaxNones == 3       \* calls of next() go on until it returned None this often
UsizeBits == 6      \* width of the model's usize (wrapping subtraction)

UsizeMod == 2 ^ UsizeBits

----------------------------------------------------------------------------
(* Vec / slice / Option helpers *)

At(v, i) == v[i + 1]                        \* v[i]
Slice(v, a, b) == SubSeq(v, a + 1, b)       \* v[a..b]
Last(v) == v[Len(v)]                        \* v.last(), v non-empty
Pop(v) == IF v = <<>> THEN <<>> ELSE SubSeq(v, 1, Len(v) - 1)   \* v.pop()
Range(a, b) == [p \in 1..(b - a) |-> a + p - 1]                 \* (a..b).collect()

Some(v) == [some |-> TRUE, val |-> v]
None == [some |-> FALSE, val |-> <<>>]

NoObject == [type |-> "none"]
Panicked(msg) == [type |-> "panic", msg |-> msg]

\* What a call of next() leaves behind: the object and the returned Option.
Returned(obj, ret) == [self |-> obj, ret |-> ret]
\* A call that panics returns nothing.
Unwound(msg) == [self |-> Panicked(msg), ret |-> None]

\* Sources of n distinct elements: 0..n-1 ascending (as in the tests of
\* lib.rs) and a descending source whose elements differ from their indices.
AscSource(n) == [p \in 1..n |-> p - 1]
DescSource(n) == [p \in 1..n |-> 2 * (n - p) + 1]
Sources(n) == {AscSource(n), DescSource(n)}

----------------------------------------------------------------------------
(* Combinations *)

\* (variant: a slice that stops at the end of s instead of panicking)
SliceToClamped(s, k) ==
    [ok |-> TRUE, val |-> IF k > Len(s) THEN s ELSE Slice(s, 0, k)]
\* self[0..k] as [ok, val]: slicing past the end panics (ok = FALSE).
SliceTo(s, k) ==
    IF k > Len(s) THEN [ok |-> FALSE, val |-> <<>>]
    ELSE [ok |-> TRUE, val |-> Slice(s, 0, k)]

\* self.len() - k on usize: a build with overflow checks panics when k > len,
\* a build without them wraps.
SubWrapping(a, b) == (a - b) % UsizeMod

\* (variant: iter::repeat(self.len()).take(k))
InitialIndicesFull(n, k) == [p \in 1..k |-> n]
\* iter::repeat(self.len() - k).take(k).collect()
InitialIndices(n, k) == [p \in 1..k |-> SubWrapping(n, k)]

\* [T]::combinations(k).  `checked` is the build's overflow-check setting.
combinations(s, k, checked) ==
    IF checked /\ k > Len(s)
    THEN Panicked("attempt to subtract with overflow")
    ELSE LET is == InitialIndices(Len(s), k)
             d == SliceTo(s, k)
         IN  IF d.ok
             THEN [type |-> "Combinations", src |-> s, dest |-> d.val,
                   indices |-> is, first |-> TRUE]
             ELSE Panicked("slice index out of range")

\* (variant: position() in place of rposition(), the leftmost such position)
LeftmostNonZero(v) ==
    LET S == {p \in 1..Len(v) : v[p] # 0}
    IN  IF S = {} THEN -1 ELSE (CHOOSE p \in S : \A q \in S : p <= q) - 1
\* indices.iter().rposition(|&j| j != 0): the 0-based position, or -1 for None.
RPositionNonZero(v) ==
    LET S == {p \in 1..Len(v) : v[p] # 0}
    IN  IF S = {} THEN -1 ELSE (CHOOSE p \in S : \A q \in S : q <= p) - 1

\* (variant: let m = n - h, as in src/src/lib.rs line 62)
WindowEndOffByOne(n, h) == n - h
\* The upper end m of the source window copied by next(): let m = n - h + 1.
WindowEnd(n, h) == n - h + 1

\* (variant: dest.clone_from_slice(from), the copy starting at slot 0)
CloneFromSliceWhole(dest, i, from) ==
    [p \in 1..Len(dest) |-> IF p <= Len(from) THEN from[p] ELSE dest[p]]
\* dest[i..].clone_from_slice(from): copies over the common length.
CloneFromSliceAt(dest, i, from) ==
    [p \in 1..Len(dest) |->
        IF p - 1 >= i /\ p - i <= Len(from) THEN from[p - i] ELSE dest[p]]

\* (variant: re-arming on exhaustion, as Subsequences::next does)
CombinationsRearmed(c) == Returned([c EXCEPT !.first = TRUE], None)
\* The arm `None => None` of Combinations::next: nothing is touched.
CombinationsExhausted(c) == Returned(c, None)

\* Combinations::next
CombinationsNext(c) ==
    LET n == Len(c.src)
        k == Len(c.dest)
    IN  IF c.first
        THEN Returned([c EXCEPT !.first = FALSE], Some(c.dest))
        ELSE LET i == RPositionNonZero(c.indices)
             IN  IF i = -1
                 THEN CombinationsExhausted(c)
                 ELSE LET h == At(c.indices, i)
                          m == WindowEnd(n, h)
                          lo == m - k + i
                          is == [p \in 1..Len(c.indices) |->
                                    IF p - 1 >= i THEN h - 1 ELSE c.indices[p]]
                      IN  IF m < 0 \/ lo < 0 \/ lo > m \/ m > n
                          THEN Unwound("slice index out of range")
                          ELSE LET d == CloneFromSliceAt(c.dest, i, Slice(c.src, lo, m))
                               IN  Returned([c EXCEPT !.indices = is, !.dest = d],
                                            Some(d))

----------------------------------------------------------------------------
(* Combinations, the revision of src/src/lib.rs *)

\* <&[T]>::iter_comb(k): as combinations(k) of iter.rs.
iter_comb(s, k, checked) ==
    IF checked /\ k > Len(s)
    THEN Panicked("attempt to subtract with overflow")
    ELSE LET is == InitialIndices(Len(s), k)
             d == SliceTo(s, k)
         IN  IF d.ok
             THEN [type |-> "CombinationsLib", src |-> s, dest |-> d.val,
                   indices |-> is, first |-> TRUE]
             ELSE Panicked("slice index out of range")

\* The upper end m of the source window copied by next() of lib.rs:
\* let m = n - h.
LibWindowEnd(n, h) == n - h

\* Combinations::next of lib.rs
IterCombNext(c) ==
    LET n == Len(c.src)
        k == Len(c.dest)
    IN  IF c.first
        THEN Returned([c EXCEPT !.first = FALSE], Some(c.dest))
        ELSE LET i == RPositionNonZero(c.indices)
             IN  IF i = -1
                 THEN Returned(c, None)
                 ELSE LET h == At(c.indices, i)
                          m == LibWindowEnd(n, h)
                          lo == m - k + i
                          is == [p \in 1..Len(c.indices) |->
                                    IF p - 1 >= i THEN h - 1 ELSE c.indices[p]]
                      IN  IF m < 0 \/ lo < 0 \/ lo > m \/ m > n
                          THEN Unwound("slice index out of range")
                          ELSE LET d == CloneFromSliceAt(c.dest, i, Slice(c.src, lo, m))
                               IN  Returned([c EXCEPT !.indices = is, !.dest = d],
                                            Some(d))

----------------------------------------------------------------------------
(* Subsequences *)

\* [T]::subsequences()
subsequences(s) ==
    [type |-> "Subsequences", src |-> s, dest |-> <<>>, indices |-> <<>>,
     first |-> TRUE]

\* (variant: the wrap-around branch without `*first = true`)
WrapFirstStale == FALSE
\* The flag left by the wrap-around branch of Subsequences::next.
WrapFirst == TRUE

\* (variant: map_or(1, ...))
NextIndexFromOne(is) == IF is = <<>> THEN 1 ELSE Last(is) + 1
\* indices.last().map_or(0, |&i| i + 1)
NextIndex(is) == IF is = <<>> THEN 0 ELSE Last(is) + 1

\* (variant: the line dest.pop() left out)
PopDestForgotten(d) == d
\* dest.pop() of the backtrack step
PopDest(d) == Pop(d)

\* (variant: the line *i += 1 left out)
BacktrackIndexKept(is1) == Last(is1)
\* *i += 1 on the last index left after the pop
BacktrackIndex(is1) == Last(is1) + 1

\* Subsequences::next
SubsequencesNext(c) ==
    IF c.first
    THEN Returned([c EXCEPT !.first = FALSE], Some(c.dest))
    ELSE LET n == Len(c.src)
             i == NextIndex(c.indices)
         IN  IF i < n
             THEN LET d == Append(c.dest, At(c.src, i))
                  IN  Returned([c EXCEPT !.indices = Append(c.indices, i),
                                         !.dest = d], Some(d))
             ELSE LET is1 == Pop(c.indices)
                      d1 == PopDest(c.dest)
                  IN  CASE is1 = <<>> /\ d1 = <<>> ->
                             Returned([c EXCEPT !.indices = is1, !.dest = d1,
                                                !.first = WrapFirst], None)
                        [] is1 # <<>> /\ d1 # <<>> ->
                             LET j == BacktrackIndex(is1)
                             IN  IF j >= n
                                 THEN Unwound("index out of bounds")
                                 ELSE LET is2 == [is1 EXCEPT ![Len(is1)] = j]
                                          d2 == [d1 EXCEPT ![Len(d1)] = At(c.src, j)]
                                      IN  Returned([c EXCEPT !.indices = is2,
                                                             !.dest = d2], Some(d2))
                        [] OTHER -> Unwound("Should not happen!")

----------------------------------------------------------------------------
(* Permutations, driven by std::slice::ElementSwaps *)

\* ElementSwaps::new(length): every element moves towards the front first.
ElementSwapsNew(length) ==
    [sdir |-> [p \in 1..length |-> [size |-> p - 1, dir |-> "Neg"]],
     emit_reset |-> TRUE,
     swaps_made |-> 0]

\* new_pos(i, s): i + 1, or i - 1 on usize (wrapping below 0).
NewPos(i, dir) == IF dir = "Pos" THEN i + 1 ELSE SubWrapping(i, 1)

\* ElementSwaps::next, the Steinhaus-Johnson-Trotter step: swap the largest
\* mobile element with the neighbour it points to and turn every larger
\* element round; with no mobile element left, emit once the swap (0, 1)
\* that restores the initial order ((0, 0) for a length below 2).
ElementSwapsNext(sw) ==
    LET len == Len(sw.sdir)
        Mobile == {i \in 0..(len - 1) :
                      LET sd == At(sw.sdir, i)
                          j == NewPos(i, sd.dir)
                      IN  j < len /\ At(sw.sdir, j).size < sd.size}
    IN  IF Mobile # {}
        THEN LET i == CHOOSE x \in Mobile :
                         \A y \in Mobile : At(sw.sdir, y).size <= At(sw.sdir, x).size
                 sd == At(sw.sdir, i)
                 j == NewPos(i, sd.dir)
                 swapped == [sw.sdir EXCEPT ![i + 1] = At(sw.sdir, j), ![j + 1] = sd]
                 turned == [p \in 1..len |->
                               IF swapped[p].size > sd.size
                               THEN [swapped[p] EXCEPT
                                        !.dir = IF @ = "Pos" THEN "Neg" ELSE "Pos"]
                               ELSE swapped[p]]
             IN  [swaps |-> [sw EXCEPT !.sdir = turned, !.swaps_made = @ + 1],
                  ret |-> Some(<<i, j>>)]
        ELSE IF sw.emit_reset
             THEN [swaps |-> [sw EXCEPT !.emit_reset = FALSE, !.swaps_made = @ + 1],
                   ret |-> Some(IF len > 1 THEN <<0, 1>> ELSE <<0, 0>>)]
             ELSE [swaps |-> sw, ret |-> None]

\* [T]::permutations_iter()
permutations_iter(s) ==
    [type |-> "Permutations", dest |-> s, swaps |-> ElementSwapsNew(Len(s))]

\* (variant: the swap left out)
SwapNothing(d, a, b) == d
\* dest.swap(a, b)
SwapElements(d, a, b) == [d EXCEPT ![a + 1] = At(d, b), ![b + 1] = At(d, a)]

\* Permutations::next
PermutationsNext(c) ==
    LET s == ElementSwapsNext(c.swaps)
        c1 == [c EXCEPT !.swaps = s.swaps]
    IN  IF ~s.ret.some
        THEN Returned(c1, None)
        ELSE IF s.ret.val = <<0, 0>>
             THEN Returned(c1, Some(c.dest))
             ELSE LET a == s.ret.val[1]
                      b == s.ret.val[2]
                  IN  IF a >= Len(c.dest) \/ b >= Len(c.dest)
                      THEN Unwound("index out of bounds")
                      ELSE LET d == SwapElements(c.dest, a, b)
                           IN  Returned([c1 EXCEPT !.dest = d], Some(d))

----------------------------------------------------------------------------
(* Product *)

\* An iterator over a finite sequence is the sequence of the items it has
\* left; next() hands out the head.
IterNext(it) ==
    IF it = <<>> THEN [ret |-> None, rest |-> <<>>]
    ELSE [ret |-> Some(Head(it)), rest |-> Tail(it)]

\* Product::new(i, j)
ProductNew(i, j) ==
    LET x == IterNext(i)
    IN  [type |-> "Product", iter_b_const |-> j, cur_a |-> x.ret,
         iter_a |-> x.rest, iter_b |-> j]

\* (variant: the inner iterator is not restarted)
RestartKeepInner(p) == p.iter_b
\* The inner iterator a Product goes on with after advancing the outer one:
\* self.iter_b = self.iter_b_const.clone().
RestartInner(p) == p.iter_b_const

\* (variant: the arm written (None, None) => return None)
OuterExhaustedStrict(p, y) == ~p.cur_a.some /\ ~y.ret.some
\* The arm (None, _) => return None: y is what self.iter_b.next() gave.
OuterExhausted(p, y) == ~p.cur_a.some

\* One iteration of the loop of Product::next.  done: the iteration returned
\* `ret`; otherwise the loop goes round again from `self`.
ProductIteration(p) ==
    LET y == IterNext(p.iter_b)
        p1 == [p EXCEPT !.iter_b = y.rest]
    IN  IF p.cur_a.some /\ y.ret.some
        THEN [done |-> TRUE, self |-> p1,
              ret |-> Some(<<p.cur_a.val, y.ret.val>>)]
        ELSE IF OuterExhausted(p, y)
             THEN [done |-> TRUE, self |-> p1, ret |-> None]
             ELSE LET x == IterNext(p1.iter_a)
                  IN  [done |-> FALSE,
                       self |-> [p1 EXCEPT !.cur_a = x.ret,
                                           !.iter_a = x.rest,
                                           !.iter_b = RestartInner(p1)],
                       ret |-> None]

\* Product::next: the loop, one iteration per unfolding.
RECURSIVE ProductNext(_)
ProductNext(p) ==
    LET r == ProductIteration(p)
    IN  IF r.done THEN Returned(r.self, r.ret) ELSE ProductNext(r.self)

----------------------------------------------------------------------------
(* Catalan *)

\* (variant: vec![0; n - 1])
InitialLabelsZero(n) == [p \in 1..(n - 1) |-> 0]
\* (variant: (1..n).collect())
InitialLabelsFromOne(n) == Range(1, n)
\* (0..n-1).collect()
InitialLabels(n) == Range(0, n - 1)

\* Catalan::new(n).  n - 1 on usize: with n = 0 a build with overflow checks
\* panics, a build without them asks for a vector of usize::MAX cells.
CatalanNew(n, checked) ==
    IF n = 0
    THEN Panicked(IF checked THEN "attempt to subtract with overflow"
                  ELSE "capacity overflow")
    ELSE [type |-> "Catalan", indices |-> InitialLabels(n), first |-> TRUE]

\* indices.iter().position(|&j| j != 0): the 0-based position, or -1 for None.
PositionNonZero(v) ==
    LET S == {p \in 1..Len(v) : v[p] # 0}
    IN  IF S = {} THEN -1 ELSE (CHOOSE p \in S : \A q \in S : p <= q) - 1

\* dst.move_from(from, start, end) of std, as [ok, val]: swaps from[start..end]
\* into the front of dst, as far as the shorter of the two reaches; the slice
\* from[start..end] panics (ok = FALSE) when end is past the end of `from`.
MoveFrom(dst, from, start, end) ==
    IF start > end \/ end > Len(from)
    THEN [ok |-> FALSE, val |-> dst]
    ELSE [ok |-> TRUE,
          val |-> [p \in 1..Len(dst) |->
                      IF p <= end - start THEN from[start + p] ELSE dst[p]]]

\* Catalan::next
CatalanNext(c) ==
    IF c.first
    THEN Returned([c EXCEPT !.first = FALSE], Some(c.indices))
    ELSE LET i == PositionNonZero(c.indices)
         IN  IF i = -1
             THEN Returned(c, None)
             ELSE LET j == At(c.indices, i)
                      mv == MoveFrom(c.indices, Range(1, j), 0, j)
                  IN  IF ~mv.ok \/ j > i + 1 \/ i + 1 > Len(c.indices)
                      THEN Unwound("slice index out of range")
                      ELSE LET is == [p \in 1..Len(c.indices) |->
                                         IF j <= p - 1 /\ p - 1 < i + 1
                                         THEN j - 1 ELSE mv.val[p]]
                           IN  Returned([c EXCEPT !.indices = is], Some(is))

----------------------------------------------------------------------------
(* The state machine *)

NoneCount(rs) == Cardinality({p \in 1..Len(rs) : ~rs[p].some})

CombinationsArgs ==
    {[kind |-> "Combinations", src |-> s, k |-> k] :
        s \in UNION {Sources(n) : n \in 0..MaxCombN}, k \in 0..(MaxCombN + 1)}
IterCombArgs ==
    {[kind |-> "CombinationsLib", src |-> s, k |-> k] :
        s \in UNION {Sources(n) : n \in 0..MaxCombN}, k \in 0..(MaxCombN + 1)}
SubsequencesArgs ==
    {[kind |-> "Subsequences", src |-> s] :
        s \in UNION {Sources(n) : n \in 0..MaxSubseqN}}

PermutationsArgs ==
    {[kind |-> "Permutations", src |-> s] :
        s \in UNION {Sources(n) : n \in 0..MaxPermN}}
ProductArgs ==
    {[kind |-> "Product", a |-> AscSource(n), b |-> DescSource(m)] :
        n \in 0..MaxOuter, m \in 0..MaxInner}
CatalanArgs == {[kind |-> "Catalan", n |-> n] : n \in 0..MaxLeaves}

Init ==
    /\ args \in CombinationsArgs \cup IterCombArgs \cup SubsequencesArgs
                 \cup PermutationsArgs \cup ProductArgs \cup CatalanArgs
    /\ self = NoObject
    /\ rets = <<>>
    /\ pc = "idle"

\* A call of next() that left `r`.
Call(r) ==
    /\ self' = r.self
    /\ rets' = IF r.self.type = "panic" THEN rets ELSE Append(rets, r.ret)
    /\ UNCHANGED <<args, pc>>

MayCall(type) == self.type = type /\ pc = "idle" /\ NoneCount(rets) < MaxNones

NewCombinations ==
    /\ self = NoObject /\ args.kind = "Combinations"
    /\ \E checked \in BOOLEAN : self' = combinations(args.src, args.k, checked)
    /\ UNCHANGED <<args, rets, pc>>

NextCombinations == MayCall("Combinations") /\ Call(CombinationsNext(self))

NewIterComb ==
    /\ self = NoObject /\ args.kind = "CombinationsLib"
    /\ \E checked \in BOOLEAN : self' = iter_comb(args.src, args.k, checked)
    /\ UNCHANGED <<args, rets, pc>>

NextIterComb == MayCall("CombinationsLib") /\ Call(IterCombNext(self))

NewSubsequences ==
    /\ self = NoObject /\ args.kind = "Subsequences"
    /\ self' = subsequences(args.src)
    /\ UNCHANGED <<args, rets, pc>>

NextSubsequences == MayCall("Subsequences") /\ Call(SubsequencesNext(self))

NewPermutations ==
    /\ self = NoObject /\ args.kind = "Permutations"
    /\ self' = permutations_iter(args.src)
    /\ UNCHANGED <<args, rets, pc>>

NextPermutations == MayCall("Permutations") /\ Call(PermutationsNext(self))

NewProduct ==
    /\ self = NoObject /\ args.kind = "Product"
    /\ self' = ProductNew(args.a, args.b)
    /\ UNCHANGED <<args, rets, pc>>

NextProduct == MayCall("Product") /\ Call(ProductNext(self))

NewCatalan ==
    /\ self = NoObject /\ args.kind = "Catalan"
    /\ \E checked \in BOOLEAN : self' = CatalanNew(args.n, checked)
    /\ UNCHANGED <<args, rets, pc>>

NextCatalan == MayCall("Catalan") /\ Call(CatalanNext(self))

Next ==
    \/ NewCombinations
    \/ NextCombinations
    \/ NewIterComb
    \/ NextIterComb
    \/ NewSubsequences
    \/ NextSubsequences
    \/ NewPermutations
    \/ NextPermutations
    \/ NewProduct
    \/ NextProduct
    \/ NewCatalan
    \/ NextCatalan

Spec == Init /\ [][Next]_vars

----------------------------------------------------------------------------
(* Product::next, iteration by iteration *)

\* A call of Product::next enters its loop.
EnterProductNext ==
    /\ MayCall("Product")
    /\ pc' = "loop"
    /\ UNCHANGED <<args, self, rets>>

\* One iteration of the loop: it returns, or goes round again.
IterateProductNext ==
    /\ self.type = "Product" /\ pc = "loop"
    /\ LET r == ProductIteration(self)
       IN  /\ self' = r.self
           /\ pc' = IF r.done THEN "idle" ELSE "loop"
           /\ rets' = IF r.done THEN Append(rets, r.ret) ELSE rets
    /\ UNCHANGED args

InitProduct ==
    /\ args \in ProductArgs
    /\ self = NoObject
    /\ rets = <<>>
    /\ pc = "idle"

NextProductLoop ==
    \/ NewProduct
    \/ EnterProductNext
    \/ IterateProductNext

\* A call that has entered the loop goes on executing it.
SpecProductLoop ==
    InitProduct /\ [][NextProductLoop]_vars /\ WF_vars(IterateProductNext)

----------------------------------------------------------------------------
(* Vocabulary of the properties *)

\* Position of the first None in the history, Len + 1 when there is none yet.
FirstNonePos(rs) ==
    LET S == {p \in 1..Len(rs) : ~rs[p].some}
    IN  IF S = {} THEN Len(rs) + 1 ELSE CHOOSE p \in S : \A q \in S : p <= q

\* The views of the first pass: what next() returned before its first None.
FirstPass == [p \in 1..(FirstNonePos(rets) - 1) |-> rets[p].val]
Exhausted == FirstNonePos(rets) <= Len(rets)

Elements(s) == {s[p] : p \in 1..Len(s)}
\* 0-based position of x in a sequence of distinct elements.
IndexIn(s, x) == CHOOSE i \in 0..(Len(s) - 1) : At(s, i) = x
IndexTuple(s, v) == [p \in 1..Len(v) |-> IndexIn(s, v[p])]
StrictlyIncreasing(t) == \A p \in 1..(Len(t) - 1) : t[p] < t[p + 1]
PairwiseDistinct(vs) == \A p, q \in 1..Len(vs) : p < q => vs[p] # vs[q]
LexLess(a, b) ==
    \E p \in 1..Len(a) : a[p] < b[p] /\ \A q \in 1..(p - 1) : a[q] = b[q]

\* A view that lists elements of s in strictly increasing index order.
IsSubsequenceOf(v, s) ==
    /\ \A p \in 1..Len(v) : v[p] \in Elements(s)
    /\ StrictlyIncreasing(IndexTuple(s, v))

RECURSIVE Choose(_, _)
Choose(n, k) ==
    IF k = 0 THEN 1
    ELSE IF k > n THEN 0
    ELSE Choose(n - 1, k - 1) + Choose(n - 1, k)

RECURSIVE Factorial(_)
Factorial(n) == IF n = 0 THEN 1 ELSE n * Factorial(n - 1)

CatalanNumber(n) == Choose(2 * n, n) \div (n + 1)

ValidCombinations == args.kind = "Combinations" /\ args.k <= Len(args.src)

----------------------------------------------------------------------------
(* Properties *)

\* C1: for a source of n distinct elements and 0 <= k <= n, the views the
\* combination enumerator returns before its first None are C(n,k) in number,
\* each of length k, each listing source elements in strictly increasing index
\* order, no two the same; construction and the calls never panic.
C1_CombinationsCount ==
    ValidCombinations =>
        /\ self.type # "panic"
        /\ \A p \in 1..Len(FirstPass) :
              /\ Len(FirstPass[p]) = args.k
              /\ IsSubsequenceOf(FirstPass[p], args.src)
        /\ PairwiseDistinct(FirstPass)
        /\ Exhausted => Len(FirstPass) = Choose(Len(args.src), args.k)

C1_Witness ==
    /\ ValidCombinations /\ Len(args.src) = 6 /\ args.k = 3
    /\ Exhausted /\ Len(FirstPass) = 20

\* C2: the combination views come in strictly increasing lexicographic order of
\* their index tuples; the first is source[0..k] and the last before None is
\* source[n-k..n].
C2_CombinationsLexOrder ==
    ValidCombinations =>
        LET n == Len(args.src)
            k == args.k
        IN  /\ Len(FirstPass) >= 1 => FirstPass[1] = Slice(args.src, 0, k)
            /\ \A p \in 2..Len(FirstPass) :
                  /\ IsSubsequenceOf(FirstPass[p], args.src)
                  /\ LexLess(IndexTuple(args.src, FirstPass[p - 1]),
                             IndexTuple(args.src, FirstPass[p]))
            /\ Exhausted =>
                  /\ Len(FirstPass) >= 1
                  /\ FirstPass[Len(FirstPass)] = Slice(args.src, n - k, n)

C2_Witness ==
    /\ ValidCombinations /\ args.src = DescSource(5) /\ args.k = 2
    /\ Exhausted /\ FirstPass[Len(FirstPass)] = <<3, 1>>

\* C3: the views the subsequence enumerator returns before its first None are
\* 2^n in number; the first is empty, each lists source elements in increasing
\* index order with a length in 0..n, and no two are the same.
C3_SubsequencesCount ==
    args.kind = "Subsequences" =>
        LET n == Len(args.src)
        IN  /\ self.type # "panic"
            /\ Len(FirstPass) >= 1 => FirstPass[1] = <<>>
            /\ \A p \in 1..Len(FirstPass) :
                  /\ Len(FirstPass[p]) <= n
                  /\ IsSubsequenceOf(FirstPass[p], args.src)
            /\ PairwiseDistinct(FirstPass)
            /\ Exhausted => Len(FirstPass) = 2 ^ n

C3_Witness ==
    /\ args.kind = "Subsequences" /\ args.src = DescSource(5)
    /\ Exhausted /\ Len(FirstPass) = 32

\* C4: when the subsequence enumerator returns None it is back in its freshly
\* constructed state, so the history is periodic: 2^n views, None, the same
\* 2^n views, None, and so on.
C4_SubsequencesWrapAround ==
    args.kind = "Subsequences" =>
        LET period == 2 ^ Len(args.src) + 1
        IN  /\ (rets # <<>> /\ ~Last(rets).some) => self = subsequences(args.src)
            /\ \A p \in 1..Len(rets) :
                  /\ rets[p].some <=> p % period # 0
                  /\ p > period => rets[p] = rets[p - period]

C4_Witness ==
    /\ args.kind = "Subsequences" /\ Len(args.src) = 3
    /\ Len(rets) = 18 /\ ~Last(rets).some /\ rets[17].some
    /\ self = subsequences(args.src)

\* C5: with outer length n >= 1 and inner length m >= 1 the product enumerator
\* returns n*m pairs and then None; the t-th pair (from 0) is
\* (outer[t div m], inner[t mod m]).
C5_ProductRowMajor ==
    (args.kind = "Product" /\ Len(args.a) >= 1 /\ Len(args.b) >= 1) =>
        LET n == Len(args.a)
            m == Len(args.b)
        IN  /\ self.type # "panic"
            /\ \A p \in 1..Len(rets) :
                  IF p <= n * m
                  THEN rets[p] = Some(<<At(args.a, (p - 1) \div m),
                                        At(args.b, (p - 1) % m)>>)
                  ELSE rets[p] = None

C5_Witness ==
    /\ args.kind = "Product" /\ Len(args.a) = 5 /\ Len(args.b) = 7
    /\ Len(rets) = 36 /\ rets[35].some /\ ~rets[36].some
    /\ rets[8] = Some(<<At(args.a, 1), At(args.b, 0)>>)

\* C6: constructed for n + 1 leaves, n >= 1, the tree-shape enumerator returns
\* C(2n,n)/(n+1) views before None, each of length n, no two equal: a run never
\* ends, by None or otherwise, with another number of views.
C6_CatalanCount ==
    (args.kind = "Catalan" /\ args.n >= 2) =>
        LET n == args.n - 1
        IN  /\ \A p \in 1..Len(FirstPass) : Len(FirstPass[p]) = n
            /\ PairwiseDistinct(FirstPass)
            /\ (Exhausted \/ self.type = "panic") =>
                  Len(FirstPass) = CatalanNumber(n)

\* C7: for a source of n distinct elements the permutation enumerator returns
\* n! views before None, each an ordering of the source, no two equal, and each
\* view after the first is the one before it with two positions swapped.
IsOrderingOf(v, s) == Len(v) = Len(s) /\ Elements(v) = Elements(s)
OneSwapApart(v, w) ==
    /\ Len(v) = Len(w)
    /\ \E a, b \in 1..Len(v) :
          /\ a < b /\ v[a] # v[b]
          /\ w = [v EXCEPT ![a] = v[b], ![b] = v[a]]

C7_PermutationsCount ==
    args.kind = "Permutations" =>
        /\ self.type # "panic"
        /\ \A p \in 1..Len(FirstPass) : IsOrderingOf(FirstPass[p], args.src)
        /\ PairwiseDistinct(FirstPass)
        /\ \A p \in 2..Len(FirstPass) : OneSwapApart(FirstPass[p - 1], FirstPass[p])
        /\ Exhausted => Len(FirstPass) = Factorial(Len(args.src))

C7_Witness ==
    /\ args.kind = "Permutations" /\ Len(args.src) = 4
    /\ Exhausted /\ Len(FirstPass) = 24

\* C8: once the combination enumerator has returned None, the next call returns
\* None as well, does not panic, and leaves the difference array and the
\* buffer as they were.
C8_CombinationsStayExhausted ==
    [][(self.type = "Combinations" /\ rets # <<>> /\ ~Last(rets).some) =>
          /\ self'.type = "Combinations"
          /\ rets' = Append(rets, None)
          /\ self'.indices = self.indices
          /\ self'.dest = self.dest]_vars

C8_Witness ==
    /\ ValidCombinations /\ Len(args.src) = 5 /\ args.k = 2
    /\ Len(rets) = 13 /\ \A p \in 11..13 : ~rets[p].some

\* C9: with k = 0 the combination enumerator returns one view, the empty one,
\* and then None; with k = n it returns one view, the whole source, and then
\* None.
C9_CombinationsEdgeCases ==
    (ValidCombinations /\ args.k \in {0, Len(args.src)}) =>
        /\ self.type # "panic"
        /\ \A p \in 1..Len(rets) :
              rets[p] = IF p = 1
                        THEN Some(IF args.k = 0 THEN <<>> ELSE args.src)
                        ELSE None

C9_Witness ==
    /\ ValidCombinations /\ Len(args.src) = 4 /\ args.k = 4
    /\ Len(rets) = 2 /\ rets[1] = Some(args.src) /\ rets[2] = None

\* C10: combinations(k) with k > n ends in a panic: no enumerator object comes
\* out of the constructor, and no next() is ever called on one.
C10_CombinationsRejectsLargeK ==
    (args.kind = "Combinations" /\ args.k > Len(args.src)) =>
        /\ self.type \in {"none", "panic"}
        /\ rets = <<>>

C10_Witness ==
    /\ args.kind = "Combinations" /\ args.k = Len(args.src) + 1
    /\ self = Panicked("slice index out of range")

\* C11: in every reachable state of the combination enumerator, in the revision
\* of iter.rs and in that of lib.rs, every slot i < k has 0 <= d[i] <= n-k and
\* dest[i] = src[(n-k+i) - d[i]].
IsAnyCombinations == self.type \in {"Combinations", "CombinationsLib"}

C11_BufferIsProjection ==
    IsAnyCombinations =>
        LET n == Len(self.src)
            k == Len(self.dest)
        IN  /\ Len(self.indices) = k
            /\ \A i \in 0..(k - 1) :
                  /\ 0 <= At(self.indices, i) /\ At(self.indices, i) <= n - k
                  /\ At(self.dest, i) = At(self.src, (n - k + i) - At(self.indices, i))

\* C12: in the next-combination transition, with i the rightmost slot whose
\* d[i] # 0 and h = d[i] before the update, the buffer slots i..k receive the
\* source elements of a window of consecutive indices, every d[i..] becomes
\* h-1, and the slots and d entries left of i stay as they were.
HasCarrySlot(d) == \E p \in 1..Len(d) : d[p] # 0
CarrySlot(d) ==
    CHOOSE i \in 0..(Len(d) - 1) :
        At(d, i) # 0 /\ \A q \in (i + 1)..(Len(d) - 1) : At(d, q) = 0

\* c2 is c after the transition that copies the window starting at `lo`.
CarriedFrom(c, c2, lo) ==
    LET k == Len(c.dest)
        i == CarrySlot(c.indices)
        h == At(c.indices, i)
    IN  /\ c2.type = c.type /\ c2.src = c.src
        /\ Len(c2.dest) = k /\ Len(c2.indices) = k
        /\ \A p \in 0..(k - 1) :
              IF p >= i
              THEN /\ At(c2.dest, p) = At(c.src, lo + (p - i))
                   /\ At(c2.indices, p) = h - 1
              ELSE /\ At(c2.dest, p) = At(c.dest, p)
                   /\ At(c2.indices, p) = At(c.indices, p)

\* The first index of the window as the claim states it: n - h - k + i.
StatedWindowStart(c) ==
    LET i == CarrySlot(c.indices)
    IN  Len(c.src) - At(c.indices, i) - Len(c.dest) + i

InCombinationTransition ==
    IsAnyCombinations /\ ~self.first /\ HasCarrySlot(self.indices)

\* C12 as stated: the window is [n-h-k+i, n-h) in both revisions.
C12_WindowAsStated ==
    [][InCombinationTransition =>
          CarriedFrom(self, self', StatedWindowStart(self))]_vars

\* C12 as amended: in iter.rs the window is [n-h-k+i+1, n-h+1), the source
\* indices n-h-k+i+1, ..., n-h; in lib.rs it is [n-h-k+i, n-h).
C12_WindowOfEachRevision ==
    [][InCombinationTransition =>
          CarriedFrom(self, self',
                      IF self.type = "Combinations"
                      THEN StatedWindowStart(self) + 1
                      ELSE StatedWindowStart(self))]_vars

C12_Witness ==
    /\ self.type = "Combinations" /\ self.src = DescSource(5) /\ ~self.first
    /\ self.indices = <<1, 1, 1>> /\ self.dest = <<7, 5, 3>>
    /\ Len(rets) >= 2 /\ rets[Len(rets) - 1] = Some(<<9, 3, 1>>)

\* C13: in every reachable state of the subsequence enumerator, over any
\* number of passes, the index stack and the buffer have the same length, the
\* indices are strictly increasing and below n, and dest[t] = src[indices[t]];
\* no call panics ("Should not happen!", index out of bounds).
C13_SubsequencesStackMirrorsBuffer ==
    args.kind = "Subsequences" =>
        /\ self.type # "panic"
        /\ self.type = "Subsequences" =>
              /\ Len(self.indices) = Len(self.dest)
              /\ StrictlyIncreasing(self.indices)
              /\ \A t \in 1..Len(self.indices) :
                    /\ 0 <= self.indices[t] /\ self.indices[t] < Len(self.src)
                    /\ self.dest[t] = At(self.src, self.indices[t])

C13_Witness ==
    /\ self.type = "Subsequences" /\ self.src = DescSource(4)
    /\ NoneCount(rets) = 1 /\ Last(rets).some
    /\ self.indices = <<1, 3>> /\ self.dest = <<5, 1>>

\* C14: every successful advance of the subsequence enumerator after the first
\* changes only the tail of the index stack: it pushes last+1 (0 on an empty
\* stack) when that is below n, and otherwise pops the last index and adds one
\* to the new last; the view returned is the projection of the new stack, and
\* the second view of a pass over a non-empty source is [src[0]].
CanDescend(is, n) == IF is = <<>> THEN n > 0 ELSE Last(is) + 1 < n
Descends(is, is2) == is2 = Append(is, IF is = <<>> THEN 0 ELSE Last(is) + 1)
Backtracks(is, is2) ==
    /\ Len(is) >= 2
    /\ Len(is2) = Len(is) - 1
    /\ \A t \in 1..Len(is2) :
          is2[t] = IF t = Len(is2) THEN is[t] + 1 ELSE is[t]
Projection(s, is) == [t \in 1..Len(is) |-> At(s, is[t])]

C14_SubsequencesTailSteps ==
    [][(/\ self.type = "Subsequences" /\ ~self.first
        /\ Len(rets') = Len(rets) + 1 /\ Last(rets').some) =>
          /\ self'.type = "Subsequences"
          /\ IF CanDescend(self.indices, Len(self.src))
             THEN Descends(self.indices, self'.indices)
             ELSE Backtracks(self.indices, self'.indices)
          /\ rets' = Append(rets, Some(Projection(self.src, self'.indices)))
          /\ Len(rets) = 1 => Last(rets').val = <<At(self.src, 0)>>]_vars

C14_Witness ==
    /\ self.type = "Subsequences" /\ self.src = DescSource(3)
    /\ Len(rets) = 5 /\ rets[2] = Some(<<5>>)
    /\ rets[4] = Some(<<5, 3, 1>>) /\ rets[5] = Some(<<5, 1>>)
    /\ self.indices = <<0, 2>>

\* C15: with a finite outer sequence of length n >= 0 and an inner sequence of
\* length m >= 0 every call of Product::next terminates; with m = 0 no pair is
\* ever returned, and the first call returns None having taken every element
\* of the outer sequence.
C15_ProductNextTerminates ==
    /\ (pc = "loop") ~> (pc = "idle")
    /\ [](Len(args.b) = 0 =>
            /\ \A p \in 1..Len(rets) : rets[p] = None
            /\ Len(rets) >= 1 => (self.iter_a = <<>> /\ self.cur_a = None))

C15_Witness ==
    /\ args.kind = "Product" /\ Len(args.a) = 4 /\ Len(args.b) = 0
    /\ pc = "idle" /\ rets = <<None>>
    /\ self.iter_a = <<>> /\ self.cur_a = None

\* C16 as stated: the tree-shape enumerator's index array starts as all zeros,
\* and so the first view it returns is all zeros.
AllZero(v) == \A p \in 1..Len(v) : v[p] = 0

C16_FirstViewAllZero ==
    args.kind = "Catalan" =>
        /\ (self.type = "Catalan" /\ self.first) => AllZero(self.indices)
        /\ Len(rets) >= 1 => (rets[1].some /\ AllZero(rets[1].val))

\* C16 as amended: Catalan::new(n) starts the index array as 0, 1, ..., n-2
\* (position p holds p), and that sequence is the first view returned.
IdentityLabels(len) == [p \in 1..len |-> p - 1]

C16_FirstViewIdentity ==
    (args.kind = "Catalan" /\ args.n >= 1) =>
        /\ (self.type = "Catalan" /\ self.first) =>
              self.indices = IdentityLabels(args.n - 1)
        /\ Len(rets) >= 1 => rets[1] = Some(IdentityLabels(args.n - 1))

C16_Witness ==
    /\ args.kind = "Catalan" /\ args.n = 5
    /\ self.type = "Catalan" /\ ~self.first
    /\ rets = <<Some(<<0, 1, 2, 3>>)>>

\* C17: from a tree-shape state whose leftmost nonzero entry is j, at position
\* i, next() leaves p at every position p < j, j-1 at every position p with
\* j <= p <= i, and the positions above i as they were, without a panic; with
\* no nonzero entry next() returns None.
C17_CatalanTransition ==
    [][(self.type = "Catalan" /\ ~self.first) =>
          IF AllZero(self.indices)
          THEN rets' = Append(rets, None)
          ELSE LET len == Len(self.indices)
                   i == CHOOSE x \in 0..(len - 1) :
                           /\ At(self.indices, x) # 0
                           /\ \A q \in 0..(x - 1) : At(self.indices, q) = 0
                   j == At(self.indices, i)
               IN  /\ self'.type = "Catalan"
                   /\ Len(self'.indices) = len
                   /\ \A p \in 0..(len - 1) :
                         At(self'.indices, p) =
                             IF p < j THEN p
                             ELSE IF p <= i THEN j - 1
                             ELSE At(self.indices, p)]_vars

====
